---- MODULE Spec2Model ----
(***************************************************************************)
(* State-machine model of server.js: the config store kept in one JSON     *)
(* document, the in-memory webhook log, the list of SSE clients and the    *)
(* request handlers that act on them.                                       *)
(***************************************************************************)
EXTENDS Integers, Sequences, FiniteSets, TLC

(* ------------------------------ bounds -------------------------------- *)
MaxEvents == 2
NumClients == 2
MaxInFlight == 1
MaxBoots == 2

(* --------------------------- JSON values ------------------------------ *)
\* A JSON/JS value is a tagged record; v is always a sequence of strings:
\* the characters of a string, the elements of an array, the digits of a number.
Undef == [t |-> "undefined", v |-> <<>>]
Str(s) == [t |-> "string", v |-> s]
Num(d) == [t |-> "number", v |-> <<d>>]
Arr(a) == [t |-> "array", v |-> a]
ObjectPrototype == [t |-> "object", v |-> <<>>]
Fn == [t |-> "function", v |-> <<>>]

\* JS truthiness, as used by `!name`, `!rules`, `!configs[name]`, `!url`.
Truthy(j) ==
  CASE j.t = "undefined" -> FALSE
    [] j.t = "string" -> j.v # <<>>
    [] j.t = "number" -> j.v # <<"0">>
    [] OTHER -> TRUE

IsArray(j) == j.t = "array"

\* String.prototype.trim on a sequence of characters.
RECURSIVE TrimStart(_)
TrimStart(s) ==
  IF s # <<>> /\ Head(s) = " " THEN TrimStart(Tail(s)) ELSE s

RECURSIVE TrimEnd(_)
TrimEnd(s) ==
  IF s # <<>> /\ s[Len(s)] = " " THEN TrimEnd(SubSeq(s, 1, Len(s) - 1)) ELSE s

Trim(s) == TrimEnd(TrimStart(s))

(* ------------------- the configs object and its file ------------------ *)
\* A parsed configs object: its own properties in insertion order and its
\* prototype.  The file holds the serialised own properties.
ProtoKey == <<"__proto__">>
InheritedKeys == {<<"constructor">>}

Range(s) == {s[i] : i \in 1..Len(s)}

HasOwn(obj, key) == \E i \in 1..Len(obj.own) : obj.own[i].name = key

OwnValue(obj, key) ==
  (CHOOSE p \in Range(obj.own) : p.name = key).rules

\* configs[name] as an rvalue: own property, else the prototype chain.
Lookup(obj, key) ==
  IF HasOwn(obj, key) THEN Arr(OwnValue(obj, key))
  ELSE IF key = ProtoKey THEN obj.proto
  ELSE IF key \in InheritedKeys THEN Fn
  ELSE Undef

\* configs[key] = rules: replaces in place, appends a new own property, or
\* (for "__proto__") sets the prototype and creates no own property.
\* an assignment that adds to the list already stored under the key
SetPropMerge(obj, key, rules) ==
  IF key = ProtoKey THEN [obj EXCEPT !.proto = Arr(rules)]
  ELSE IF HasOwn(obj, key)
  THEN [obj EXCEPT !.own = [i \in 1..Len(obj.own) |->
          IF obj.own[i].name = key
          THEN [name |-> key, rules |-> obj.own[i].rules \o rules]
          ELSE obj.own[i]]]
  ELSE [obj EXCEPT !.own = Append(obj.own, [name |-> key, rules |-> rules])]

SetProp(obj, key, rules) ==
  IF key = ProtoKey THEN [obj EXCEPT !.proto = Arr(rules)]
  ELSE IF HasOwn(obj, key)
  THEN [obj EXCEPT !.own = [i \in 1..Len(obj.own) |->
          IF obj.own[i].name = key THEN [name |-> key, rules |-> rules]
          ELSE obj.own[i]]]
  ELSE [obj EXCEPT !.own = Append(obj.own, [name |-> key, rules |-> rules])]

RECURSIVE Without(_, _)
Without(own, key) ==
  IF own = <<>> THEN <<>>
  ELSE IF Head(own).name = key THEN Without(Tail(own), key)
  ELSE <<Head(own)>> \o Without(Tail(own), key)

\* delete configs[key]: removes an own property only.
DeleteProp(obj, key) == [obj EXCEPT !.own = Without(obj.own, key)]

\* Object.keys(configs)
Keys(obj) == [i \in 1..Len(obj.own) |-> obj.own[i].name]

\* JSON.stringify(configs): own enumerable properties only.
Stringify(obj) == obj.own

\* JSON.parse(text): a fresh object whose prototype is Object.prototype.
Parse(text) == [own |-> text, proto |-> ObjectPrototype]

\* A value as res.json serialises it inside a response body: a function-valued
\* property is omitted, Object.prototype serialises as {}.
ToJson(j) == IF j.t = "function" THEN Undef ELSE j

(* ------------------------------ inputs -------------------------------- *)
NameInputs ==
  { Undef, Num("5"), Str(<<>>), Str(<<" ">>), Str(<<"x">>),
    Str(<<" ", "x", " ">>), Str(<<"constructor">>), Str(ProtoKey) }

RulesInputs ==
  { Undef, Str(<<"r">>), Arr(<<>>), Arr(<<"r1", "r2">>), Arr(<<"r3">>) }

\* :name route parameters are non-empty strings.
ParamInputs ==
  { <<"x">>, <<" ", "x", " ">>, <<"constructor">>, ProtoKey, <<"y">> }

TypicalHeaders ==
  [ct |-> "application/json", ua |-> "curl", auth |-> "secret"]

HeaderInputs ==
  { TypicalHeaders,
    [ct |-> "application/json", ua |-> "undefined", auth |-> "undefined"] }

BodyInputs == {"b1"}

\* What the wall clock can read when new Date() is evaluated.
ClockReadings == 0..MaxEvents

\* The readings of a clock that has stood still or moved on since t.
LaterReadings(t) == {t, t + 1} \cap ClockReadings

UrlInputs == { Undef, Str(<<>>), Str(<<"http://peer">>) }

Clients == 1..NumClients

(* ------------------------------- state -------------------------------- *)
VARIABLES
  configsFile,   \* text of CONFIGS_FILE: the serialised mapping
  saved,         \* history: names a save answered ok for, less those deleted
  fileExists,    \* CONFIGS_FILE is present on disk
  boots,         \* how many times the process has been started
  webhooks,      \* the in-memory event log
  sseClients,    \* the list of registered SSE responses
  written,       \* per client: the frames written to its response, in order
  acks,          \* the ids acknowledged by the receive handler, in call order
  transport,     \* per client: "none", "open" or "closed"
  listening,     \* per client: the close listener is attached
  pc,            \* position of the running receive handler: "idle" or "publish"
  cur,           \* the event the running receive handler built
  idx,           \* loop index of the running receive handler's for-of
  clock,         \* the last value read from the wall clock
  inflight,      \* relay calls suspended in await fetch
  unanswered,    \* relay calls received that have not been answered yet
  last           \* the last request handled and the response produced

vars == <<configsFile, saved, fileExists, boots, webhooks, sseClients, written, acks, transport,
          listening, pc, cur, idx, clock, inflight, unanswered, last>>

configVars == <<configsFile, saved>>
hostVars == <<fileExists, boots>>
eventVars == <<webhooks, sseClients, written, acks, transport, listening,
               pc, cur, idx, clock>>
relayVars == <<inflight, unanswered>>

NoEvent == [id |-> 0, receivedAt |-> 0,
            headers |-> [ct |-> "undefined", ua |-> "undefined"], body |-> ""]

EmptyBody == [ok |-> FALSE, error |-> "", name |-> Undef, rules |-> Undef,
              names |-> <<>>, id |-> 0, status |-> 0]

NoRequest == [op |-> "none", name |-> Undef, rules |-> Undef, client |-> 0,
              found |-> 0, existed |-> FALSE, outcome |-> "none", status |-> 0,
              body |-> EmptyBody]

Response(op, name, rules, client, status, body) ==
  [op |-> op, name |-> name, rules |-> rules, client |-> client, found |-> 0,
   existed |-> FALSE, outcome |-> "none", status |-> status, body |-> body]

\* lines 13-33: the data file exists and holds {}, both stores are empty.
Init ==
  /\ configsFile = Stringify([own |-> <<>>, proto |-> ObjectPrototype])
  /\ saved = {}
  /\ fileExists = TRUE
  /\ boots = 1
  /\ webhooks = <<>>
  /\ sseClients = <<>>
  /\ written = [c \in Clients |-> <<>>]
  /\ acks = <<>>
  /\ transport = [c \in Clients |-> "none"]
  /\ listening = [c \in Clients |-> FALSE]
  /\ pc = "idle"
  /\ cur = NoEvent
  /\ idx = 0
  /\ clock = 0
  /\ inflight = 0
  /\ unanswered = 0
  /\ last = NoRequest

\* fs.readFileSync + JSON.parse
readConfigs == Parse(configsFile)

\* a handler that responds without writing: the file keeps its text
WrittenNothing(configs) == configsFile

\* fs.writeFileSync(JSON.stringify(configs))
WrittenText(configs) == Stringify(configs)

writeConfigs(configs) == configsFile' = WrittenText(configs)

(* ---------------------------- config CRUD ----------------------------- *)
\* GET /api/configs
ListResponse(text) ==
  Response("list", Undef, Undef, 0, 200,
           [EmptyBody EXCEPT !.ok = TRUE, !.names = Keys(Parse(text))])

ListConfigs ==
  /\ pc = "idle"
  /\ last' = ListResponse(configsFile)
  /\ UNCHANGED <<hostVars, configVars, eventVars, relayVars>>

\* GET /api/configs/:name
GetResponse(text, name) ==
  LET configs == Parse(text)
      found == Lookup(configs, name)
  IN IF ~Truthy(found)
     THEN Response("get", Str(name), Undef, 0, 404,
                   [EmptyBody EXCEPT !.error = "Config not found"])
     ELSE Response("get", Str(name), Undef, 0, 200,
                   [EmptyBody EXCEPT !.ok = TRUE, !.name = Str(name),
                                     !.rules = ToJson(found)])

GetConfig(name) ==
  /\ pc = "idle"
  /\ last' = GetResponse(configsFile, name)
  /\ UNCHANGED <<hostVars, configVars, eventVars, relayVars>>

\* POST /api/configs: the validation of lines 56-63; "" when the body passes.
SaveRejection(name, rules) ==
  IF ~Truthy(name) THEN "Name is required"
  ELSE IF name.t # "string" THEN "TypeError: name.trim is not a function"
  ELSE IF Trim(name.v) = <<>> THEN "Name is required"
  ELSE IF ~Truthy(rules) \/ ~IsArray(rules) THEN "Rules array is required"
  ELSE ""

SaveStatus(name, rules) ==
  LET why == SaveRejection(name, rules)
  IN IF why = "" THEN 200
     ELSE IF why = "TypeError: name.trim is not a function" THEN 500
     ELSE 400

StoredName(name) == Trim(name.v)

SaveConfig(name, rules) ==
  /\ pc = "idle"
  /\ LET status == SaveStatus(name, rules)
     IN IF status # 200
        THEN /\ last' = Response("save", name, rules, 0, status,
                          [EmptyBody EXCEPT !.error = SaveRejection(name, rules)])
             /\ UNCHANGED <<hostVars, configVars>>
        ELSE LET configs == SetProp(readConfigs, StoredName(name), rules.v)
             IN /\ writeConfigs(configs)
                /\ saved' = saved \cup {StoredName(name)}
                /\ UNCHANGED hostVars
                /\ last' = [Response("save", name, rules, 0, 200,
                                      [EmptyBody EXCEPT !.ok = TRUE,
                                         !.name = Str(StoredName(name))])
                              EXCEPT !.existed =
                                HasOwn(readConfigs, StoredName(name))]
  /\ UNCHANGED <<eventVars, relayVars>>

\* DELETE /api/configs/:name
DeleteConfig(name) ==
  /\ pc = "idle"
  /\ LET configs == readConfigs
     IN IF ~Truthy(Lookup(configs, name))
        THEN /\ last' = Response("delete", Str(name), Undef, 0, 404,
                          [EmptyBody EXCEPT !.error = "Config not found"])
             /\ UNCHANGED <<hostVars, configVars>>
        ELSE /\ writeConfigs(DeleteProp(configs, name))
             /\ saved' = saved \ {name}
             /\ UNCHANGED hostVars
             /\ last' = [Response("delete", Str(name), Undef, 0, 200,
                                   [EmptyBody EXCEPT !.ok = TRUE])
                           EXCEPT !.existed = HasOwn(configs, name)]
  /\ UNCHANGED <<eventVars, relayVars>>

(* ---------------------------- webhook log ----------------------------- *)
\* lines 89-92: only content-type and user-agent are kept.
Project(h) == [ct |-> h.ct, ua |-> h.ua]

\* the id taken from the length before counting the new event
NextIdFromZero(log) == Len(log)

\* line 87
NextId(log) == Len(log) + 1

\* lines 86-94
MakeEvent(log, now, h, b) ==
  [id |-> NextId(log), receivedAt |-> now, headers |-> Project(h), body |-> b]

\* unshift in place of push: the new event goes to the front of the log
PushFront(log, e) == <<e>> \o log

\* the push left out of the handler's first half
PushNothing(log, e) == log

\* line 96
Push(log, e) == Append(log, e)

\* JSON.stringify(event) inside an SSE frame: a property whose value is
\* undefined is omitted.
JsonHeaders(h) ==
  (IF h.ct = "undefined" THEN <<>> ELSE << <<"content-type", h.ct>> >>)
  \o (IF h.ua = "undefined" THEN <<>> ELSE << <<"user-agent", h.ua>> >>)

Frame(e) ==
  [id |-> e.id, receivedAt |-> e.receivedAt, headers |-> JsonHeaders(e.headers),
   body |-> e.body]

Frames(log) == [i \in 1..Len(log) |-> Frame(log[i])]

\* a replay that shifts the events out of the log as it writes them
Drained(log) == <<>>

\* lines 151-153: the for-of over webhooks only reads the log
Replayed(log) == log

\* a handler that registers the client without replaying the log
BacklogSkipped(log) == <<>>

\* lines 151-153: what the events handler replays
Backlog(log) == Frames(log)

Registered(c) == \E i \in 1..Len(sseClients) : sseClients[i] = c

\* a write that throws on a dead socket and so ends the fan-out
WriteAborting(w, c, frames) ==
  IF \E d \in Clients : Registered(d) /\ transport[d] = "closed"
  THEN w
  ELSE [w EXCEPT ![c] = w[c] \o frames]

\* res.write / client.write of a frame: appended to what c has been sent.  A
\* write to a response whose socket is gone is dropped by the runtime
\* without throwing, so the handler goes on either way.
Write(w, c, frames) == [w EXCEPT ![c] = w[c] \o frames]

\* line 158
IndexOf(list, c) ==
  IF \E i \in 1..Len(list) : list[i] = c
  THEN CHOOSE i \in 1..Len(list) : list[i] = c /\ \A j \in 1..(i - 1) : list[j] # c
  ELSE -1

\* splice(idx) without the count: everything from idx on is removed
UnsubscribeFrom(list, c) ==
  LET i == IndexOf(list, c)
  IN IF i # -1 THEN SubSeq(list, 1, i - 1) ELSE list

\* a close listener that leaves the list alone
UnsubscribeNothing(list, c) == list

\* splice(idx, 1) without the idx !== -1 test: splice(-1, 1) removes the
\* last element
UnsubscribeUnchecked(list, c) ==
  LET i == IndexOf(list, c)
  IN IF i # -1
     THEN SubSeq(list, 1, i - 1) \o SubSeq(list, i + 1, Len(list))
     ELSE SubSeq(list, 1, Len(list) - 1)

\* line 159: splice(idx, 1) when found
Unsubscribe(list, c) ==
  LET i == IndexOf(list, c)
  IN IF i # -1
     THEN SubSeq(list, 1, i - 1) \o SubSeq(list, i + 1, Len(list))
     ELSE list

(* --------------------------- GET /api/events -------------------------- *)
\* lines 142-161, one run of the handler for the response object c
Subscribe(c) ==
  /\ pc = "idle"
  /\ transport[c] = "none"
  /\ transport' = [transport EXCEPT ![c] = "open"]
  /\ written' = Write(written, c, Backlog(webhooks))
  /\ webhooks' = Replayed(webhooks)
  /\ sseClients' = Append(sseClients, c)
  /\ listening' = [listening EXCEPT ![c] = TRUE]
  /\ last' = Response("subscribe", Undef, Undef, c, 200, EmptyBody)
  /\ UNCHANGED <<hostVars, configVars, acks, pc, cur, idx, clock, relayVars>>

\* the peer goes away: the socket of c is gone, its close event is pending
TransportClose(c) ==
  /\ pc = "idle"
  /\ transport[c] = "open"
  /\ transport' = [transport EXCEPT ![c] = "closed"]
  /\ UNCHANGED <<hostVars, configVars, webhooks, sseClients, written, acks,
                 listening, pc, cur, idx, clock, relayVars, last>>

\* lines 157-160: the close listener.  It is attached with req.on, not once,
\* so it stays attached and runs again if the event is emitted again.
OnClose(c) ==
  /\ pc = "idle"
  /\ listening[c]
  /\ transport[c] = "closed"
  /\ sseClients' = Unsubscribe(sseClients, c)
  /\ last' = [Response("close", Undef, Undef, c, 0, EmptyBody)
                EXCEPT !.found = IndexOf(sseClients, c)]
  /\ UNCHANGED <<hostVars, configVars, webhooks, written, acks, transport,
                 listening, pc, cur, idx, clock, relayVars>>

(* ----------------------- POST /api/webhook/receive -------------------- *)
\* lines 86-97: build the event and push it.  now is what new Date() reads:
\* the wall clock of the host, which is not a monotonic clock.  An instant
\* stands for its ISO-8601 text, whose string order is the order of instants.
ReceiveAppend(h, b, now) ==
  /\ pc = "idle"
  /\ Len(webhooks) < MaxEvents
  /\ LET event == MakeEvent(webhooks, now, h, b)
     IN /\ clock' = now
        /\ cur' = event
        /\ webhooks' = Push(webhooks, event)
  /\ pc' = "publish"
  /\ idx' = 1
  /\ UNCHANGED <<hostVars, configVars, sseClients, written, acks, transport,
                 listening, relayVars, last>>

\* lines 100-102: one iteration of the for-of over sseClients
ReceivePublish ==
  /\ pc = "publish"
  /\ idx <= Len(sseClients)
  /\ written' = Write(written, sseClients[idx], <<Frame(cur)>>)
  /\ idx' = idx + 1
  /\ UNCHANGED <<hostVars, configVars, webhooks, sseClients, acks, transport,
                 listening, pc, cur, clock, relayVars, last>>

\* line 104
AckId(e, log) == e.id

\* line 104: the loop is over, the acknowledgment is sent
ReceiveAck ==
  /\ pc = "publish"
  /\ idx > Len(sseClients)
  /\ last' = Response("receive", Undef, Undef, 0, 200,
                [EmptyBody EXCEPT !.ok = TRUE, !.id = AckId(cur, webhooks)])
  /\ acks' = Append(acks, AckId(cur, webhooks))
  /\ pc' = "idle"
  /\ cur' = NoEvent
  /\ idx' = 0
  /\ UNCHANGED <<hostVars, configVars, webhooks, sseClients, written, transport,
                 listening, clock, relayVars>>

(* ------------------------ POST /api/webhook/send ---------------------- *)
\* How the awaited fetch and response.text() of lines 116-122 can settle:
\* with a response of the peer, whatever its status, or with an error.
RelayOutcomes ==
  { [kind |-> "resolved", status |-> 200, error |-> ""],
    [kind |-> "resolved", status |-> 500, error |-> ""],
    [kind |-> "rejected", status |-> 0, error |-> "fetch failed"] }

PeerAnswered == [kind |-> "resolved", status |-> 200, error |-> ""]

\* a handler whose url test does not return and goes on to the fetch
SuspendedAfterFallThrough(n, url) == n + 1

\* lines 111-120: the handlers suspended in await fetch once the url test of
\* a handler in front of n others is over: a falsy url returns before fetch
SuspendedAfter(n, url) == IF ~Truthy(url) THEN n ELSE n + 1

\* lines 111-120: validation, then the handler suspends in await fetch
SendStart(url) ==
  /\ pc = "idle"
  /\ inflight' = SuspendedAfter(inflight, url)
  /\ inflight' <= MaxInFlight
  /\ IF ~Truthy(url)
     THEN /\ last' = Response("send", url, Undef, 0, 400,
                       [EmptyBody EXCEPT !.error = "Missing target URL"])
          /\ unanswered' = unanswered
     ELSE /\ unanswered' = unanswered + 1
          /\ UNCHANGED last
  /\ UNCHANGED <<hostVars, configVars, eventVars>>

\* lines 130-137: the body of the response to a settled fetch
RelayResponse(outcome) ==
  IF outcome.kind = "resolved"
  THEN [Response("send", Undef, Undef, 0, 200,
                 [EmptyBody EXCEPT !.ok = TRUE, !.status = outcome.status])
          EXCEPT !.outcome = outcome.kind]
  ELSE [Response("send", Undef, Undef, 0, 502,
                 [EmptyBody EXCEPT !.error = outcome.error])
          EXCEPT !.outcome = outcome.kind]

\* lines 122-138: the fetch settles and the handler responds
SendFinish(outcome) ==
  /\ pc = "idle"
  /\ inflight > 0
  /\ inflight' = inflight - 1
  /\ unanswered' = unanswered - 1
  /\ last' = RelayResponse(outcome)
  /\ UNCHANGED <<hostVars, configVars, eventVars>>

(* ------------------------- process lifetime --------------------------- *)
\* The process exits or is killed: everything it held in memory is gone and
\* its connections are dropped; the data file stays on disk.
Stop ==
  /\ pc # "down"
  /\ pc' = "down"
  /\ webhooks' = <<>>
  /\ sseClients' = <<>>
  /\ written' = [c \in Clients |-> <<>>]
  /\ acks' = <<>>
  /\ transport' = [c \in Clients |-> "none"]
  /\ listening' = [c \in Clients |-> FALSE]
  /\ cur' = NoEvent
  /\ idx' = 0
  /\ inflight' = 0
  /\ unanswered' = 0
  /\ last' = Response("stop", Undef, Undef, 0, 0, EmptyBody)
  /\ UNCHANGED <<hostVars, configVars, clock>>

\* line 7: under VERCEL the data directory is /tmp, which does not outlive
\* the instance: the file can be gone when the process starts again.
RemoveFile ==
  /\ pc = "down"
  /\ fileExists = TRUE
  /\ fileExists' = FALSE
  /\ configsFile' = <<>>
  /\ saved' = {}
  /\ UNCHANGED <<boots, eventVars, relayVars, last>>

\* a startup that writes {} whether or not the file is there
StartupTextReset(exists, text) ==
  Stringify([own |-> <<>>, proto |-> ObjectPrototype])

\* lines 17-19: the text of the file once the startup check is over
StartupText(exists, text) ==
  IF ~exists THEN Stringify([own |-> <<>>, proto |-> ObjectPrototype])
  ELSE text

\* lines 13-33 and 163: module load of a new process
Startup ==
  /\ pc = "down"
  /\ boots < MaxBoots
  /\ boots' = boots + 1
  /\ configsFile' = StartupText(fileExists, configsFile)
  /\ fileExists' = TRUE
  /\ webhooks' = <<>>
  /\ sseClients' = <<>>
  /\ pc' = "idle"
  /\ last' = Response("startup", Undef, Undef, 0, 0, EmptyBody)
  /\ UNCHANGED <<saved, written, acks, transport, listening, cur, idx, clock,
                 relayVars>>

(* --------------------------- specification ---------------------------- *)
Next ==
  \/ ListConfigs
  \/ \E name \in ParamInputs : GetConfig(name)
  \/ \E name \in NameInputs, rules \in RulesInputs : SaveConfig(name, rules)
  \/ \E name \in ParamInputs : DeleteConfig(name)
  \/ \E c \in Clients : Subscribe(c)
  \/ \E c \in Clients : TransportClose(c)
  \/ \E c \in Clients : OnClose(c)
  \/ \E h \in HeaderInputs, b \in BodyInputs, now \in ClockReadings :
       ReceiveAppend(h, b, now)
  \/ ReceivePublish
  \/ ReceiveAck
  \/ \E url \in UrlInputs : SendStart(url)
  \/ \E outcome \in RelayOutcomes : SendFinish(outcome)

\* Every handler under every input.  The two specifications below are this
\* one with the inputs of one side fixed, which keeps each exhaustive run small.
Spec == Init /\ [][Next]_vars

\* The config store under every input of its four handlers, with the relay
\* running beside it.
ConfigNext ==
  \/ ListConfigs
  \/ \E name \in ParamInputs : GetConfig(name)
  \/ \E name \in NameInputs, rules \in RulesInputs : SaveConfig(name, rules)
  \/ \E name \in ParamInputs : DeleteConfig(name)
  \/ \E url \in UrlInputs : SendStart(url)
  \/ \E outcome \in RelayOutcomes : SendFinish(outcome)

ConfigSpec == Init /\ [][ConfigNext]_vars

\* The webhook side under every schedule of its handlers, with the config
\* handlers and the relay running beside it.
EventNext ==
  \/ \E c \in Clients : Subscribe(c)
  \/ \E c \in Clients : TransportClose(c)
  \/ \E c \in Clients : OnClose(c)
  \/ \E b \in BodyInputs, now \in LaterReadings(clock) :
       ReceiveAppend(TypicalHeaders, b, now)
  \/ ReceivePublish
  \/ ReceiveAck
  \/ ListConfigs
  \/ GetConfig(<<"x">>)
  \/ SaveConfig(Str(<<"x">>), Arr(<<"r3">>))
  \/ DeleteConfig(<<"x">>)
  \/ SendStart(Str(<<"http://peer">>))
  \/ SendFinish(PeerAnswered)

EventSpec == Init /\ [][EventNext]_vars

\* The receive and events handlers under every header input and every
\* reading of the wall clock.
ClockNext ==
  \/ \E c \in Clients : Subscribe(c)
  \/ \E h \in HeaderInputs, b \in BodyInputs, now \in ClockReadings :
       ReceiveAppend(h, b, now)
  \/ ReceivePublish
  \/ ReceiveAck

ClockSpec == Init /\ [][ClockNext]_vars

\* The webhook side and the config store across stops and starts of the
\* process.
RestartNext ==
  \/ Stop
  \/ RemoveFile
  \/ Startup
  \/ \E c \in Clients : Subscribe(c)
  \/ \E b \in BodyInputs, now \in LaterReadings(clock) :
       ReceiveAppend(TypicalHeaders, b, now)
  \/ ReceivePublish
  \/ ReceiveAck
  \/ SaveConfig(Str(<<"x">>), Arr(<<"r3">>))
  \/ DeleteConfig(<<"x">>)

RestartSpec == Init /\ [][RestartNext]_vars

\* The webhook side alone, with the scheduling the event loop provides: a
\* running handler goes on to its end (it is synchronous code), and a close
\* event that is pending is dispatched to its listener.
SubscriberNext ==
  \/ \E c \in Clients : Subscribe(c)
  \/ \E c \in Clients : TransportClose(c)
  \/ \E c \in Clients : OnClose(c)
  \/ \E b \in BodyInputs, now \in LaterReadings(clock) :
       ReceiveAppend(TypicalHeaders, b, now)
  \/ ReceivePublish
  \/ ReceiveAck

SubscriberSpec ==
  /\ Init
  /\ [][SubscriberNext]_vars
  /\ WF_vars(ReceivePublish)
  /\ WF_vars(ReceiveAck)
  /\ \A c \in Clients : WF_vars(OnClose(c))

(* ============================ properties ============================== *)
Position(c) == IndexOf(sseClients, c)

AllButLast(log) == SubSeq(log, 1, Len(log) - 1)

\* What a registered client has been sent: the whole log, less the event
\* being published while the for-of has not reached the client yet.
Expected(c) ==
  IF pc = "publish" /\ Position(c) >= idx
  THEN Frames(AllButLast(webhooks))
  ELSE Frames(webhooks)

FanOutDone == pc = "publish" /\ idx > Len(sseClients)

\* C1: the ids acknowledged by POST /api/webhook/receive are 1, 2, ..., N in
\* call order, whatever other requests run in between: the i-th
\* acknowledgment carries i, and the last response of a receive carries the
\* number of receives acknowledged so far.
C1_AckIdsSequential ==
  /\ \A i \in 1..Len(acks) : acks[i] = i
  /\ (last.op = "receive" /\ last.status = 200) => last.body.id = Len(acks)

C1_Witness ==
  /\ Len(acks) >= 2
  /\ configsFile # <<>>
  /\ inflight > 0
  /\ \E c \in Clients : listening[c] /\ ~Registered(c)

\* C2: a subscriber that connects when the log holds K events is sent
\* exactly those K events, in id order, and is registered; while it stays
\* connected it has been sent the whole log frame by frame, each event once:
\* the K of the backlog, then every event published since.
C2_BacklogThenLive ==
  /\ [](\A c \in Clients :
          (Registered(c) /\ transport[c] = "open") =>
            /\ written[c] = Expected(c)
            /\ \A i \in 1..Len(written[c]) : written[c][i].id = i)
  /\ [][ \A c \in Clients :
           (~listening[c] /\ listening'[c]) =>
             /\ written'[c] = Frames(webhooks)
             /\ webhooks' = webhooks
             /\ sseClients' = Append(sseClients, c) ]_vars

\* the last handler before the receive now finishing its fan-out was the
\* subscribe of c, so c joined with a backlog of all events but the last
C2_Witness ==
  \E c \in Clients :
    /\ FanOutDone
    /\ last.op = "subscribe" /\ last.client = c
    /\ Registered(c) /\ transport[c] = "open"
    /\ Len(webhooks) >= 2
    /\ Len(written[c]) = Len(webhooks)

\* C3: once the close listener has removed a subscriber, nothing more is
\* written to it, and a close handled for a subscriber that is not in the
\* list leaves the list as it is.
C3_RemovedStaysSilent ==
  [][ /\ \A c \in Clients :
           (listening[c] /\ ~Registered(c)) =>
             (written'[c] = written[c] /\ ~Registered(c)')
      /\ (last'.op = "close" /\ last' # last /\ last'.found = -1) =>
           sseClients' = sseClients ]_vars

C3_Witness ==
  \E c \in Clients :
    /\ last.op = "close" /\ last.client = c /\ last.found = -1
    /\ listening[c] /\ ~Registered(c)
    /\ Len(written[c]) < Len(webhooks)
    /\ Len(sseClients) >= 1

\* C4 as claimed: when the fan-out of a publish is over, no subscriber whose
\* channel is dead is left in the subscriber set.
C4_DeadSubscriberDropped ==
  FanOutDone => \A c \in Clients : Registered(c) => transport[c] = "open"

\* C4 as amended: a publish never changes the subscriber set, a subscriber
\* whose channel is dead stays registered until its close event is handled;
\* every registered subscriber is written the event, and the receive is
\* acknowledged with ok.
C4_DeadSubscriberKept ==
  [][ /\ pc = "publish" => sseClients' = sseClients
      /\ FanOutDone =>
           /\ \A c \in Clients :
                Registered(c) =>
                  /\ written[c] # <<>>
                  /\ written[c][Len(written[c])] = Frame(cur)
           /\ last'.op = "receive" /\ last'.status = 200 /\ last'.body.ok
           /\ pc' = "idle" ]_vars

C4_Witness ==
  /\ FanOutDone
  /\ \E c, d \in Clients :
       /\ Registered(c) /\ transport[c] = "closed"
       /\ Registered(d) /\ transport[d] = "open"
       /\ Position(c) < Position(d)

\* C10: in a receive call the event is in the log before it is written to
\* anyone, the acknowledgment follows the fan-out and carries the id of the
\* event appended and written; no subscriber is ever sent an event that is
\* not in the log.
C10_AppendBeforePublish ==
  /\ [](/\ \A c \in Clients : \A i \in 1..Len(written[c]) :
             \E j \in 1..Len(webhooks) : written[c][i] = Frame(webhooks[j])
        /\ pc = "publish" =>
             /\ webhooks # <<>>
             /\ webhooks[Len(webhooks)] = cur)
  /\ [][ (pc = "publish" /\ pc' = "idle") =>
           /\ last'.body.id = cur.id
           /\ cur.id = webhooks[Len(webhooks)].id
           /\ \A c \in Clients :
                Registered(c) => written[c][Len(written[c])].id = cur.id ]_vars

C10_Witness ==
  /\ last.op = "receive" /\ last.status = 200 /\ last.body.id = 2
  /\ pc = "idle"
  /\ \E c, d \in Clients : c # d /\ Len(written[c]) = 2 /\ Len(written[d]) = 1

StoredMapping == Parse(configsFile)

Entries(text, key) == {i \in 1..Len(text) : text[i].name = key}

\* C5 as claimed: a save whose name trims to a non-empty string and whose
\* rules are a list succeeds, answers the trimmed name and stores the list
\* under it, so that get of the trimmed name returns that list; nothing is
\* stored under the untrimmed name.
C5_SaveStoresTrimmed ==
  (/\ last.op = "save"
   /\ last.name.t = "string" /\ Trim(last.name.v) # <<>>
   /\ IsArray(last.rules)) =>
     LET key == Trim(last.name.v)
         got == GetResponse(configsFile, key)
     IN /\ last.status = 200
        /\ last.body.name = Str(key)
        /\ got.status = 200
        /\ got.body.rules = last.rules
        /\ last.name.v # key => ~HasOwn(StoredMapping, last.name.v)

C7_AbsentIsNotFound ==
  /\ [](/\ last.op = "get" =>
             IF HasOwn(StoredMapping, last.name.v)
             THEN /\ last.status = 200
                  /\ last.body.rules = Arr(OwnValue(StoredMapping, last.name.v))
             ELSE last.status = 404
        /\ last.op = "delete" =>
             IF last.existed
             THEN last.status = 200 /\ ~HasOwn(StoredMapping, last.name.v)
             ELSE last.status = 404)
  /\ [][ last'.op = "delete" =>
           configsFile' = Without(configsFile, last'.name.v) ]_vars

InvalidSave(name, rules) ==
  \/ ~Truthy(name)
  \/ name.t = "string" /\ Trim(name.v) = <<>>
  \/ ~Truthy(rules)
  \/ ~IsArray(rules)

\* C8 as claimed: a save whose name is missing, empty or whitespace-only, or
\* whose rules are missing or not a list, answers 400 and writes nothing.
C8_InvalidSaveIs400 ==
  /\ []((last.op = "save" /\ InvalidSave(last.name, last.rules)) =>
          last.status = 400)
  /\ [][ (last'.op = "save" /\ InvalidSave(last'.name, last'.rules)) =>
           configsFile' = configsFile ]_vars

\* C9: when a save or a delete has answered ok, the document holds the whole
\* mapping as the handler left it; a get or a list answers from the document
\* as the last completed write left it.
C9_WriteBeforeResponse ==
  /\ [](/\ last.op = "get" => last = GetResponse(configsFile, last.name.v)
        /\ last.op = "list" => last = ListResponse(configsFile))
  /\ [][ /\ (last'.op = "save" /\ last'.status = 200) =>
              configsFile' =
                Stringify(SetProp(Parse(configsFile), Trim(last'.name.v),
                                  last'.rules.v))
         /\ (last'.op = "delete" /\ last'.status = 200) =>
              configsFile' =
                Stringify(DeleteProp(Parse(configsFile), last'.name.v)) ]_vars

C9_Witness ==
  /\ last.op = "list"
  /\ Len(last.body.names) = 2
  /\ last.body.names = Keys(StoredMapping)

\* C11: a relay call whose url is missing or empty is answered 400 and no
\* fetch is started; a call whose fetch fails is answered 502 with ok false
\* and the error's message; a call whose fetch brings a response of the peer
\* is answered ok with the peer's status.  Every call is answered once: the
\* calls not answered yet are the ones suspended in the fetch.
C11_RelayAnswersOnce ==
  /\ [](/\ unanswered = inflight
        /\ last.op = "send" =>
             \/ /\ last.outcome = "none"
                /\ ~Truthy(last.name)
                /\ last.status = 400
                /\ ~last.body.ok
                /\ last.body.error = "Missing target URL"
             \/ /\ last.outcome = "rejected"
                /\ last.status = 502
                /\ ~last.body.ok
                /\ last.body.error # ""
                /\ \E o \in RelayOutcomes :
                     o.kind = "rejected" /\ o.error = last.body.error
             \/ /\ last.outcome = "resolved"
                /\ last.status = 200
                /\ last.body.ok
                /\ \E o \in RelayOutcomes :
                     o.kind = "resolved" /\ o.status = last.body.status)
  /\ [][ /\ (last'.op = "send" /\ last'.status = 400 /\ last' # last) =>
              inflight' = inflight
         /\ inflight' > inflight =>
              (inflight' = inflight + 1 /\ last' = last)
         /\ inflight' < inflight =>
              /\ inflight' = inflight - 1
              /\ last'.op = "send" /\ last'.outcome # "none" ]_vars

C11_Witness ==
  /\ last.op = "send" /\ last.outcome = "rejected" /\ last.status = 502
  /\ unanswered = 0
  /\ configsFile # <<>>

\* C12 as claimed: list answers exactly the names that a save has answered
\* ok for (in trimmed form) and that no delete has answered ok for since,
\* each once; a list or a get leaves the document as it was.
C12_ListIsSavedNames ==
  /\ [](last.op = "list" =>
          /\ Range(last.body.names) = saved
          /\ Cardinality(Range(last.body.names)) = Len(last.body.names))
  /\ [][ last'.op \in {"list", "get"} => configsFile' = configsFile ]_vars

\* C13: the log only grows at its end: across every step the log before is
\* a prefix of the log after, so no stored event's id, headers or body ever
\* changes, and the event at position i has id i.
C13_LogAppendOnly ==
  /\ [](\A i \in 1..Len(webhooks) : webhooks[i].id = i)
  /\ [][ /\ Len(webhooks') >= Len(webhooks)
         /\ SubSeq(webhooks', 1, Len(webhooks)) = webhooks ]_vars

C13_Witness ==
  /\ Len(webhooks) = 2
  /\ pc = "idle"
  /\ last.op = "close"
  /\ saved # {}

\* C14: a start of the process begins with an empty log and an empty
\* subscriber list, and the first receive it acknowledges carries id 1; a
\* stop and a start leave the document as the last write left it: the start
\* writes the empty mapping when the file is absent and only then.
C14_RestartKeepsOnlyFile ==
  /\ [](/\ pc = "down" => (webhooks = <<>> /\ sseClients = <<>>)
        /\ acks # <<>> => acks[1] = 1
        /\ pc # "down" => fileExists)
  /\ [][ /\ (pc # "down" /\ pc' = "down") => configsFile' = configsFile
         /\ (pc = "down" /\ pc' # "down") =>
              /\ webhooks' = <<>> /\ sseClients' = <<>>
              /\ fileExists => configsFile' = configsFile
              /\ ~fileExists =>
                   configsFile' =
                     Stringify([own |-> <<>>, proto |-> ObjectPrototype]) ]_vars

\* the second process has acknowledged its first receive with id 1, after a
\* first process that had logged an event of its own, and still holds the
\* config saved before the restart
C14_Witness ==
  /\ boots = 2
  /\ acks = <<1>>
  /\ Len(webhooks) = 1
  /\ clock = 2
  /\ configsFile # <<>>
  /\ last.op = "receive"

\* C15 as claimed: when a save for a name follows another save for the same
\* name, whichever of the two finishes last, the document then holds under
\* that name exactly the list of the save that wrote last: not a mixture of
\* the two lists and not what was there before them.
C15_LastSaveWins ==
  [][ (/\ last'.op = "save" /\ last'.status = 200
       /\ Trim(last'.name.v) \in saved) =>
        LET key == Trim(last'.name.v)
        IN /\ HasOwn(Parse(configsFile'), key)
           /\ OwnValue(Parse(configsFile'), key) = last'.rules.v
           /\ Cardinality(Entries(configsFile', key)) = 1 ]_vars

Occurrences(list, c) == Cardinality({i \in 1..Len(list) : list[i] = c})

\* C16: a subscriber is put in the list once, by its subscribe call and
\* after its backlog has been written; it is never in the list twice and
\* never put back once removed; and when its transport has closed it is
\* eventually out of the list.
C16_SubscriberLifecycle ==
  /\ [](\A c \in Clients :
          /\ Occurrences(sseClients, c) <= 1
          /\ Registered(c) => listening[c])
  /\ [][ \A c \in Clients :
           /\ (~Registered(c) /\ Registered(c)') =>
                /\ ~listening[c]
                /\ written'[c] = Frames(webhooks)
                /\ sseClients' = Append(sseClients, c)
           /\ (listening[c] /\ ~Registered(c)) => ~Registered(c)' ]_vars
  /\ \A c \in Clients : (transport[c] = "closed") ~> ~Registered(c)

C16_Witness ==
  \E c, d \in Clients :
    /\ transport[c] = "closed" /\ listening[c] /\ ~Registered(c)
    /\ last.op = "close" /\ last.client = c /\ last.found = 1
    /\ Registered(d) /\ transport[d] = "open"
    /\ written[c] # <<>>

\* C17 as claimed: for every two events in the log with ids i < j,
\* receivedAt of the first is not later than receivedAt of the second.
C17_TimestampsMonotone ==
  \A i, j \in 1..Len(webhooks) :
    webhooks[i].id < webhooks[j].id =>
      webhooks[i].receivedAt <= webhooks[j].receivedAt

Copies(c, id) == Cardinality({i \in 1..Len(written[c]) : written[c][i].id = id})

\* C18: a close takes one subscriber out of the list and leaves the others
\* in it, in their order, with nothing written to anyone; the list does not
\* change while a receive is publishing; and when the fan-out of a receive
\* is over every subscriber in the list has been written the event once.
C18_OthersUndisturbed ==
  [][ /\ Len(sseClients') < Len(sseClients) =>
           /\ \E c \in Clients :
                /\ Registered(c)
                /\ sseClients' =
                     SubSeq(sseClients, 1, Position(c) - 1)
                       \o SubSeq(sseClients, Position(c) + 1, Len(sseClients))
           /\ written' = written
      /\ pc = "publish" => sseClients' = sseClients
      /\ (pc = "publish" /\ pc' = "idle") =>
           \A c \in Clients : Registered(c) => Copies(c, cur.id) = 1 ]_vars

\* the first subscriber of the list was removed, then an event was
\* published: the other one, now first, has been written it
C18_Witness ==
  \E c, d \in Clients :
    /\ FanOutDone
    /\ last.op = "close" /\ last.client = c /\ last.found = 1
    /\ ~Registered(c) /\ Len(written[c]) = 1
    /\ Registered(d) /\ Len(written[d]) = 2
    /\ Copies(d, cur.id) = 1

OtherEntries(text, key) == SelectSeq(text, LAMBDA p : p.name # key)

\* C19 as claimed: a save that answered ok has put its list under its name
\* and a delete that answered ok has taken its name out, and either leaves
\* the entries of every other name as they were; so of two mutations on
\* different names, in either order, the document shows both.
C19_NoLostUpdate ==
  [][ /\ (last'.op = "save" /\ last'.status = 200) =>
           LET key == Trim(last'.name.v)
           IN /\ HasOwn(Parse(configsFile'), key)
              /\ OwnValue(Parse(configsFile'), key) = last'.rules.v
              /\ OtherEntries(configsFile', key) = OtherEntries(configsFile, key)
      /\ (last'.op = "delete" /\ last'.status = 200) =>
           LET key == last'.name.v
           IN /\ ~HasOwn(Parse(configsFile'), key)
              /\ OtherEntries(configsFile', key) = OtherEntries(configsFile, key)
      /\ (last'.op \in {"save", "delete"} /\ last'.status # 200) =>
           configsFile' = configsFile ]_vars

\* C20: a step of list, get, save, delete or of the relay, suspended or
\* answering, leaves the log, the subscriber list and what was written to
\* the subscribers as they were; a step of receive, subscribe or close
\* leaves the document as it was; a subscribe or a close leaves the log and
\* the next id as they were.  No step changes both the document and the
\* webhook side.
C20_SubsystemsIndependent ==
  [][ /\ (\/ /\ last'.op \in {"list", "get", "save", "delete", "send"}
             /\ last' # last
          \/ inflight' # inflight
          \/ configsFile' # configsFile) =>
           /\ webhooks' = webhooks
           /\ sseClients' = sseClients
           /\ written' = written
           /\ NextId(webhooks') = NextId(webhooks)
      /\ (\/ last'.op \in {"receive", "subscribe", "close"} /\ last' # last
          \/ webhooks' # webhooks
          \/ sseClients' # sseClients
          \/ written' # written
          \/ pc' # pc) =>
           /\ configsFile' = configsFile
           /\ saved' = saved
      /\ (last'.op \in {"subscribe", "close"} /\ last' # last) =>
           /\ webhooks' = webhooks
           /\ NextId(webhooks') = NextId(webhooks) ]_vars

\* a get answered from a stored config while a relay call is suspended, the
\* log holds two events and two subscribers are registered
C20_Witness ==
  /\ last.op = "get" /\ last.status = 200
  /\ inflight > 0
  /\ Len(webhooks) = 2
  /\ Len(sseClients) = 2
  /\ \A c \in Clients : Registered(c) => Len(written[c]) = 2

====
